---- MODULE Spec2Model ----
(***************************************************************************)
(* Model of the mewroo ingestion jobs (backend/app/ingest): the watermark  *)
(* state log (common.py), the three snapshot jobs (ingest_dim_industry,    *)
(* ingest_membership, ingest_market_cap) and the price job                 *)
(* (ingest_stock_prices).  Instants are integers; a day is DayLen units.   *)
(* Rows keep their key columns; payload columns that no job reads back     *)
(* (names, weights, currency, ingested_at) are left out.                   *)
(***************************************************************************)
EXTENDS Integers, Sequences, FiniteSets, TLC

\* ------------------------------------------------------------------ bounds
MaxRuns == 2      \* job invocations in one behaviour
MaxNow == 4       \* last instant of the wall clock
MaxLog == 3       \* state rows written through the bare accessor (SpecState)

\* Python's None (get_state returns (None, None) when no row exists).
None == -1
DayLen == 2       \* instants per day: .date() / midnight truncation is visible

Source == "yfinance"
Interval == "1d"

IsSet(x) == x # None

\* datetime.replace(hour=0, minute=0, second=0) / datetime.date()
DateOf(t) == (t \div DayLen) * DayLen

\* str(x).strip() on the raw identifiers the model feeds in
Strip(s) ==
  CASE s = " A" -> "A"
    [] s = " nan " -> "nan"
    [] s = "  " -> ""
    [] OTHER -> s

\* CHECK LOST: every identifier is taken
ValidIdAny(s) == TRUE

\* `if not tkr or tkr == "nan": continue`
ValidId(s) == Strip(s) # "" /\ Strip(s) # "nan"

Min2(a, b) == IF a < b THEN a ELSE b

\* WRONG END: min(rec[0] for rec in records)
SetMin(S) == CHOOSE x \in S : \A y \in S : x <= y

SetMax(S) == CHOOSE x \in S : \A y \in S : y <= x

Range(s) == {s[n] : n \in 1..Len(s)}

RECURSIVE SelectKeys(_, _)
\* the elements of sequence s that satisfy ValidId, stripped, in order
SelectKeys(s, acc) ==
  IF s = <<>> THEN acc
  ELSE SelectKeys(Tail(s), IF ValidId(Head(s)) THEN Append(acc, Strip(Head(s))) ELSE acc)

\* ------------------------------------------------------------- state store
VARIABLES
  now,          \* wall clock (utc_now_s)
  stateLog,     \* finance_yf.ingest_state: append-only sequence of state rows
  dimTable,     \* finance_yf.dim_industry (set of rows)
  memTable,     \* finance_yf.industry_membership
  capTable,     \* finance_yf.fact_market_cap
  priceTable    \* finance_yf.fact_stock_prices

\* updated_at of the next row the store accepts: the column is filled by the
\* store on insert (set_state does not pass it) and orders the rows by write.
StoreClock(log) == Len(log) + 1

MatchingRows(log, source, target, key) ==
  {n \in 1..Len(log) :
     log[n].source = source /\ log[n].target = target /\ log[n].key = key}

\* WRONG ORDER: ORDER BY updated_at ASC
get_state_asc(log, source, target, key) ==
  LET m == MatchingRows(log, source, target, key) IN
  IF m = {} THEN <<None, None>>
  ELSE LET n == CHOOSE n \in m : \A o \in m : log[n].updated_at <= log[o].updated_at
       IN <<log[n].last_ts, log[n].last_asof_date>>

\* SELECT last_ts, last_asof_date ... WHERE source, target, key
\* ORDER BY updated_at DESC LIMIT 1;  r[0] if r else (None, None)
get_state(log, source, target, key) ==
  LET m == MatchingRows(log, source, target, key) IN
  IF m = {} THEN <<None, None>>
  ELSE LET n == CHOOSE n \in m : \A o \in m : log[o].updated_at <= log[n].updated_at
       IN <<log[n].last_ts, log[n].last_asof_date>>

\* client.insert("finance_yf.ingest_state", [(source, target, key, last_ts, last_asof_date)])
set_state(log, source, target, key, last_ts, last_asof_date) ==
  Append(log, [source |-> source, target |-> target, key |-> key,
               last_ts |-> last_ts, last_asof_date |-> last_asof_date,
               updated_at |-> StoreClock(log)])

\* f"{t}|{interval}"
PriceKey(t) == t \o "|" \o Interval

\* ------------------------------------------------------- one job invocation
VARIABLES
  pc,           \* "idle" | "dim_loop" | "mem_loop" | "cap_loop" | "px_chunk" | "px_ticker" | "done" | "raised"
  job,          \* which job the current / last invocation is
  asof,         \* asof (snapshot jobs)
  force,        \* force flag
  args,         \* sectors / tickers of the invocation, as the loop walks them
  i,            \* loop position in args
  rows,         \* rows / batch collected for the final insert
  total,        \* total_rows / total
  ret,          \* return value (None while running or when an exception left the job)
  todo,         \* ingest_membership: dim groups not yet visited
  ingestedAt,   \* ingested_at
  overlap,      \* overlap_days (in instants)
  lookback,     \* default_lookback_days (in instants)
  chunkSize,    \* chunk_size
  chunk,        \* the chunk being processed
  norm,         \* normalize_download's frame for the chunk: ticker -> set of ts
  j             \* position in chunk

\* history kept for the properties; no action's guard reads it
VARIABLES
  runs,         \* invocations started
  logAtStart,   \* Len(stateLog) when the invocation started
  inserted,     \* data rows inserted by the invocation: [table, row]
  fetched,      \* entities for which the provider was called in the invocation
  fetchedOk,    \* entities whose provider call produced at least one row to write
  lastOutcome,  \* what the last step did with its entity
  storeFailed,  \* a store call raised in the invocation
  fetchStart,   \* <<start>> of the invocation's last yf.download, <<>> before it
  rerun,        \* the invocation repeats the one before it: same job, arguments, as-of date, force off
  firstWrote,   \* in a repeat: the keys whose state row the first invocation appended
  provider      \* what the invocation's downloads returned so far: "full" | "complete" | "partial"

\* two invocations of ingest_stock_prices for one ticker running as two processes
VARIABLES
  procs         \* process -> its position and locals

\* the API server's startup hook (main.py)
VARIABLES
  startup       \* wait_for_clickhouse: position, loop count, last_err, pauses

storeVars == <<stateLog, dimTable, memTable, capTable, priceTable>>
priceVars == <<overlap, lookback, chunkSize, chunk, norm, j>>
vars == <<now, stateLog, dimTable, memTable, capTable, priceTable,
          pc, job, asof, force, args, i, rows, total, ret, todo, ingestedAt,
          overlap, lookback, chunkSize, chunk, norm, j,
          runs, logAtStart, inserted, fetched, fetchedOk, lastOutcome,
          storeFailed, fetchStart, rerun, firstWrote, provider, procs, startup>>

Procs == {1, 2}

\* a process that has not started
IdleProc == [pc |-> "idle", ingested_at |-> 0, overlap |-> 0, lookback |-> 0,
             earliest |-> 0, sub |-> {}, downloaded_at |-> 0]

\* wait_for_clickhouse before the server starts
StartupOff == [pc |-> "off", attempt |-> 0, result |-> "none", last_err |-> "none",
               failed |-> 0, slept |-> 0]

Init ==
  /\ now = 0
  /\ stateLog = <<>> /\ dimTable = {} /\ memTable = {} /\ capTable = {} /\ priceTable = {}
  /\ pc = "idle" /\ job = "none" /\ asof = None /\ force = FALSE /\ args = <<>>
  /\ i = 1 /\ rows = <<>> /\ total = 0 /\ ret = None /\ todo = {} /\ ingestedAt = 0
  /\ overlap = 0 /\ lookback = 0 /\ chunkSize = 1 /\ chunk = <<>> /\ norm = <<>> /\ j = 1
  /\ runs = 0 /\ logAtStart = 0 /\ inserted = {} /\ fetched = {} /\ fetchedOk = {}
  /\ lastOutcome = "NONE" /\ storeFailed = FALSE /\ fetchStart = <<>>
  /\ rerun = FALSE /\ firstWrote = {} /\ provider = "full"
  /\ procs = [p \in Procs |-> IdleProc]
  /\ startup = StartupOff

\* the wall clock moves between invocations
Tick ==
  /\ pc = "idle"
  /\ now < MaxNow
  /\ now' = now + 1
  /\ UNCHANGED <<startup, procs, provider, storeVars, pc, job, asof, force, args, i, rows, total, ret, todo,
                 ingestedAt, priceVars, runs, logAtStart, inserted, fetched,
                 fetchedOk, lastOutcome, storeFailed, fetchStart, rerun, firstWrote>>

\* the keys of the state rows appended since position n of the log
KeysSince(log, n) == {log[m].key : m \in (n + 1)..Len(log)}

\* entry of every job: client = ch(); ingested_at = utc_now_s(); locals start empty.
\* again: the caller repeats the invocation that has just returned.
BeginRun(jb, a, f, lst, again) ==
  /\ pc = (IF again THEN "done" ELSE "idle")
  /\ runs < MaxRuns
  /\ runs' = runs + 1
  /\ job' = jb /\ asof' = a /\ force' = f /\ args' = lst
  /\ ingestedAt' = now
  /\ logAtStart' = Len(stateLog)
  /\ i' = 1 /\ rows' = <<>> /\ total' = 0 /\ j' = 1 /\ chunk' = <<>> /\ norm' = <<>>
  /\ inserted' = {} /\ fetched' = {} /\ fetchedOk' = {} /\ fetchStart' = <<>>
  /\ rerun' = again
  /\ firstWrote' = IF again THEN KeysSince(stateLog, logAtStart) ELSE {}
  /\ provider' = "full"
  /\ UNCHANGED <<now, storeVars, procs, startup>>

\* the invocation is over (returned or raised): the process ends, its locals are gone
Return ==
  /\ pc \in {"done", "raised"}
  /\ pc' = "idle"
  /\ job' = "none" /\ asof' = None /\ force' = FALSE /\ args' = <<>>
  /\ i' = 1 /\ rows' = <<>> /\ total' = 0 /\ ret' = None /\ todo' = {}
  /\ chunk' = <<>> /\ norm' = <<>> /\ j' = 1
  /\ overlap' = 0 /\ lookback' = 0 /\ chunkSize' = 1
  /\ inserted' = {} /\ fetched' = {} /\ fetchedOk' = {}
  /\ lastOutcome' = "NONE" /\ storeFailed' = FALSE /\ fetchStart' = <<>>
  /\ rerun' = FALSE /\ firstWrote' = {}
  /\ ingestedAt' = 0 /\ logAtStart' = Len(stateLog)
  /\ provider' = "full"
  /\ UNCHANGED <<now, storeVars, runs, procs, startup>>

\* asof = asof_date or ingested_at.replace(hour=0, minute=0, second=0)
AsofOf(asofArg, t) == IF IsSet(asofArg) THEN asofArg ELSE DateOf(t)

\* WRONG COMPARISON: last_asof > asof
SnapshotSkipStrict(last_asof, a) == IsSet(last_asof) /\ last_asof > a

\* `if last_asof and last_asof >= asof`
SnapshotSkip(last_asof, a) == IsSet(last_asof) /\ last_asof >= a

\* FORCE IGNORED: the state is consulted even with force on
SnapshotGateIgnoreForce(log, target, key, a, f) ==
  SnapshotSkip(get_state(log, Source, target, key)[2], a)

\* `if not force: _, last_asof = get_state(...); if last_asof and last_asof >= asof`
SnapshotGate(log, target, key, a, f) ==
  ~f /\ SnapshotSkip(get_state(log, Source, target, key)[2], a)

\* -------------------------------------------------------- ingest_dim_industry
\* DEFAULT_SECTORS (eleven sector keys in the source; two stand for them)
DEFAULT_SECTORS == <<"s1", "s2">>
SectorArgs == {<<>>, <<"s1">>, <<"s2">>}
\* --asof-date: omitted (UTC start of today) or tomorrow's date
AsofArgs == {None, DayLen}

\* the provider's catalog: industries of a sector
IndustryOf(s) == IF s = "s1" THEN "i1" ELSE "i2"

\* what yf.Sector(sector_key).industries can do
SectorResponses(s) ==
  { [kind |-> "raise", keys |-> <<>>],
    [kind |-> "empty", keys |-> <<>>],
    [kind |-> "badcols", keys |-> <<IndustryOf(s)>>],
    [kind |-> "ok", keys |-> <<IndustryOf(s)>>],
    [kind |-> "ok", keys |-> <<IndustryOf(s), " nan ">>] }

RECURSIVE DimRows(_, _, _)
\* for _, r in df.iterrows(): ... rows.append((sector_key, industry_key, ..., asof, ingested_at))
DimRows(s, keys, a) ==
  IF keys = <<>> THEN <<>>
  ELSE (IF ValidId(Head(keys))
        THEN <<[sector_key |-> s, industry_key |-> Strip(Head(keys)), asof_date |-> a]>>
        ELSE <<>>) \o DimRows(s, Tail(keys), a)

\* DETECTION LOST: a table without name / symbol / weight column still gives rows
DimNewAnyCols(s, resp, a) ==
  IF resp.kind \in {"ok", "badcols"} THEN DimRows(s, resp.keys, a) ELSE <<>>

\* what one pass of the sector loop adds to rows: nothing when the fetch raised,
\* the table is empty, or name, symbol or weight column is not found (`continue`)
DimNew(s, resp, a) ==
  IF resp.kind = "ok" THEN DimRows(s, resp.keys, a) ELSE <<>>

Tag(table, rs) == {[table |-> table, row |-> r] : r \in rs}

DimStart(sectorsArg, asofArg, f, again) ==
  /\ BeginRun("dim_industry", AsofOf(asofArg, now), f,
              IF sectorsArg = <<>> THEN DEFAULT_SECTORS ELSE sectorsArg, again)
  /\ \E readOk \in BOOLEAN :
       /\ (f => readOk)
       /\ IF ~f /\ ~readOk
          THEN pc' = "raised" /\ ret' = None /\ storeFailed' = TRUE /\ lastOutcome' = "NONE"
          ELSE IF SnapshotGate(stateLog, "dim_industry", "ALL", AsofOf(asofArg, now), f)
          THEN pc' = "done" /\ ret' = 0 /\ storeFailed' = FALSE /\ lastOutcome' = "SKIPPED"
          ELSE pc' = "dim_loop" /\ ret' = None /\ storeFailed' = FALSE /\ lastOutcome' = "NONE"
  /\ UNCHANGED <<todo, overlap, lookback, chunkSize>>

DimSector ==
  /\ pc = "dim_loop" /\ i <= Len(args)
  /\ \E resp \in SectorResponses(args[i]) :
       LET new == DimNew(args[i], resp, asof) IN
       /\ rows' = rows \o new
       /\ fetched' = fetched \cup {args[i]}
       /\ fetchedOk' = IF new # <<>> THEN fetchedOk \cup {args[i]} ELSE fetchedOk
       /\ lastOutcome' = CASE resp.kind = "raise" -> "FETCH_FAILED"
                           [] resp.kind = "empty" -> "EMPTY"
                           [] resp.kind = "badcols" -> "BADCOLS"
                           [] OTHER -> "OK"
  /\ i' = i + 1
  /\ UNCHANGED <<startup, procs, provider, now, storeVars, pc, job, asof, force, args, total, ret, todo, ingestedAt,
                 priceVars, runs, logAtStart, inserted, storeFailed, fetchStart, rerun, firstWrote>>

\* if rows: client.insert(...);  set_state(..., "ALL", last_asof_date=asof);  return len(rows)
DimFinish ==
  /\ pc = "dim_loop" /\ i > Len(args)
  /\ \E insOk, setOk \in BOOLEAN :
       IF rows # <<>> /\ ~insOk
       THEN /\ pc' = "raised" /\ storeFailed' = TRUE
            /\ UNCHANGED <<storeVars, inserted, ret>>
       ELSE /\ dimTable' = dimTable \cup Range(rows)
            /\ inserted' = inserted \cup Tag("dim_industry", Range(rows))
            /\ IF ~setOk
               THEN pc' = "raised" /\ storeFailed' = TRUE /\ UNCHANGED <<stateLog, ret>>
               ELSE /\ stateLog' = set_state(stateLog, Source, "dim_industry", "ALL", None, asof)
                    /\ pc' = "done" /\ ret' = Len(rows) /\ UNCHANGED storeFailed
            /\ UNCHANGED <<memTable, capTable, priceTable>>
  /\ lastOutcome' = "NONE"
  /\ UNCHANGED <<startup, procs, provider, now, job, asof, force, args, i, rows, total, todo, ingestedAt,
                 priceVars, runs, logAtStart, fetched, fetchedOk, fetchStart, rerun, firstWrote>>

\* ---------------------------------------------------------- ingest_membership
\* SELECT sector_key, industry_key, argMax(industry_name, asof_date) ... GROUP BY sector_key, industry_key
DimGroups(tbl) == {<<r.sector_key, r.industry_key>> : r \in tbl}

\* the provider's catalog: top company of an industry
TickerOf(ind) == IF ind = "i1" THEN "A" ELSE "B"

\* what yf.Industry(industry_key).top_companies can do: raise, be empty, carry
\* the tickers in a symbol/ticker column, in an index named symbol, or nowhere
IndustryResponses(ind) ==
  { [kind |-> "raise", keys |-> <<>>],
    [kind |-> "empty", keys |-> <<>>],
    [kind |-> "nosym", keys |-> <<TickerOf(ind)>>],
    [kind |-> "symcol", keys |-> <<TickerOf(ind)>>],
    [kind |-> "symindex", keys |-> <<" nan ", TickerOf(ind)>>] }

RECURSIVE MemRows(_, _, _)
\* for _, r in top.iterrows(): ... rows.append((asof, sector_key, industry_key, ticker, ...))
MemRows(g, keys, a) ==
  IF keys = <<>> THEN <<>>
  ELSE (IF ValidId(Head(keys))
        THEN <<[asof_date |-> a, sector_key |-> g[1], industry_key |-> g[2],
                ticker |-> Strip(Head(keys))]>>
        ELSE <<>>) \o MemRows(g, Tail(keys), a)

\* what one pass of the industry loop adds to rows: nothing when the fetch raised,
\* the table is empty, or no symbol / ticker column or symbol index is found
MemNew(g, resp, a) ==
  IF resp.kind \in {"symcol", "symindex"} THEN MemRows(g, resp.keys, a) ELSE <<>>

MemStart(asofArg, f, again) ==
  /\ BeginRun("industry_membership", AsofOf(asofArg, now), f, <<>>, again)
  /\ \E readOk, queryOk \in BOOLEAN :
       /\ (f => readOk)
       /\ (~readOk => queryOk)
       /\ IF ~f /\ ~readOk
          THEN /\ pc' = "raised" /\ ret' = None /\ storeFailed' = TRUE
               /\ lastOutcome' = "NONE" /\ todo' = {}
          ELSE IF SnapshotGate(stateLog, "industry_membership", "ALL", AsofOf(asofArg, now), f)
          THEN /\ queryOk
               /\ pc' = "done" /\ ret' = 0 /\ storeFailed' = FALSE
               /\ lastOutcome' = "SKIPPED" /\ todo' = {}
          ELSE IF ~queryOk
          THEN /\ pc' = "raised" /\ ret' = None /\ storeFailed' = TRUE
               /\ lastOutcome' = "NONE" /\ todo' = {}
          ELSE /\ pc' = "mem_loop" /\ ret' = None /\ storeFailed' = FALSE
               /\ lastOutcome' = "NONE" /\ todo' = DimGroups(dimTable)
  /\ UNCHANGED <<overlap, lookback, chunkSize>>

\* one pass of `for sector_key, industry_key, industry_name in dim` (the query's row order is the store's)
MemIndustry ==
  /\ pc = "mem_loop" /\ todo # {}
  /\ \E g \in todo : \E resp \in IndustryResponses(g[2]) :
       LET new == MemNew(g, resp, asof) IN
       /\ rows' = rows \o new
       /\ todo' = todo \ {g}
       /\ fetched' = fetched \cup {g[2]}
       /\ fetchedOk' = IF new # <<>> THEN fetchedOk \cup {g[2]} ELSE fetchedOk
       /\ lastOutcome' = CASE resp.kind = "raise" -> "FETCH_FAILED"
                           [] resp.kind = "empty" -> "EMPTY"
                           [] resp.kind = "nosym" -> "BADCOLS"
                           [] OTHER -> "OK"
  /\ UNCHANGED <<startup, procs, provider, now, storeVars, pc, job, asof, force, args, i, total, ret, ingestedAt,
                 priceVars, runs, logAtStart, inserted, storeFailed, fetchStart, rerun, firstWrote>>

\* if rows: client.insert(...);  set_state(..., "ALL", last_asof_date=asof);  return len(rows)
MemFinish ==
  /\ pc = "mem_loop" /\ todo = {}
  /\ \E insOk, setOk \in BOOLEAN :
       IF rows # <<>> /\ ~insOk
       THEN /\ pc' = "raised" /\ storeFailed' = TRUE
            /\ UNCHANGED <<storeVars, inserted, ret>>
       ELSE /\ memTable' = memTable \cup Range(rows)
            /\ inserted' = inserted \cup Tag("industry_membership", Range(rows))
            /\ IF ~setOk
               THEN pc' = "raised" /\ storeFailed' = TRUE /\ UNCHANGED <<stateLog, ret>>
               ELSE /\ stateLog' = set_state(stateLog, Source, "industry_membership", "ALL",
                                             None, asof)
                    /\ pc' = "done" /\ ret' = Len(rows) /\ UNCHANGED storeFailed
            /\ UNCHANGED <<dimTable, capTable, priceTable>>
  /\ lastOutcome' = "NONE"
  /\ UNCHANGED <<startup, procs, provider, now, job, asof, force, args, i, rows, total, todo, ingestedAt,
                 priceVars, runs, logAtStart, fetched, fetchedOk, fetchStart, rerun, firstWrote>>

\* ---------------------------------------------------------- ingest_market_cap
\* SELECT DISTINCT ticker FROM industry_membership WHERE asof_date = (SELECT max(asof_date) ...)
LatestMembershipTickers(tbl) ==
  IF tbl = {} THEN {}
  ELSE LET m == SetMax({r.asof_date : r \in tbl})
       IN {r.ticker : r \in {x \in tbl : x.asof_date = m}}

\* the orders in which a query may return a set of values
SeqsOf(S) == {s \in [1..Cardinality(S) -> S] : Range(s) = S}

TickerArgs == {<<>>, <<"A">>, <<"A", "B">>, <<" nan ", "  ", " A">>}

\* what yf.Ticker(tkr).info can do: raise, lack marketCap, carry one that
\* float() rejects, or carry a number
CapResponses == {"raise", "nomc", "badmc", "ok"}

\* ROW FOR A TICKER WITHOUT MARKET CAP: the `if mc is None: continue` is lost
CapRowsNoCheck(resp, a, tkr) ==
  IF resp \in {"ok", "nomc"} THEN <<[asof_date |-> a, ticker |-> tkr]>> ELSE <<>>

\* what one try-block adds to batch: (asof, tkr, float(mc), ...) when the info has a market cap
CapRows(resp, a, tkr) ==
  IF resp = "ok" THEN <<[asof_date |-> a, ticker |-> tkr]>> ELSE <<>>

CapStart(tickersArg, asofArg, f, again) ==
  /\ \E queryOk \in BOOLEAN : \E lst \in (IF tickersArg = <<>>
                                          THEN SeqsOf(LatestMembershipTickers(memTable))
                                          ELSE {tickersArg}) :
       /\ (tickersArg # <<>> => queryOk)
       /\ BeginRun("fact_market_cap", AsofOf(asofArg, now), f, IF queryOk THEN lst ELSE <<>>,
                   again)
       /\ IF queryOk
          THEN pc' = "cap_loop" /\ storeFailed' = FALSE
          ELSE pc' = "raised" /\ storeFailed' = TRUE
  /\ ret' = None /\ lastOutcome' = "NONE"
  /\ UNCHANGED <<todo, overlap, lookback, chunkSize>>

\* one pass of `for tkr in tickers`
CapTicker ==
  /\ pc = "cap_loop" /\ i <= Len(args)
  /\ LET tkr == Strip(args[i]) IN
     IF ~ValidId(args[i])
     THEN /\ i' = i + 1 /\ lastOutcome' = "DROPPED"
          /\ UNCHANGED <<pc, rows, total, stateLog, fetched, fetchedOk, storeFailed>>
     ELSE \E readOk, setOk \in BOOLEAN : \E resp \in CapResponses :
       IF ~force /\ ~readOk
       THEN /\ pc' = "raised" /\ storeFailed' = TRUE /\ lastOutcome' = "NONE"
            /\ UNCHANGED <<i, rows, total, stateLog, fetched, fetchedOk>>
       ELSE IF SnapshotGate(stateLog, "fact_market_cap", tkr, asof, force)
       THEN /\ i' = i + 1 /\ lastOutcome' = "SKIPPED"
            /\ UNCHANGED <<pc, rows, total, stateLog, fetched, fetchedOk, storeFailed>>
       ELSE /\ i' = i + 1
            /\ fetched' = fetched \cup {tkr}
            /\ rows' = rows \o CapRows(resp, asof, tkr)
            /\ total' = total + Len(CapRows(resp, asof, tkr))
            /\ fetchedOk' = IF CapRows(resp, asof, tkr) # <<>> THEN fetchedOk \cup {tkr}
                            ELSE fetchedOk
            /\ lastOutcome' = CASE resp = "ok" -> (IF setOk THEN "OK" ELSE "STATE_FAILED")
                                [] resp = "nomc" -> "NO_MARKETCAP"
                                [] OTHER -> "FETCH_FAILED"
            /\ IF CapRows(resp, asof, tkr) = <<>>
               THEN UNCHANGED <<stateLog, storeFailed>>
               ELSE IF setOk
               THEN /\ stateLog' = set_state(stateLog, Source, "fact_market_cap", tkr, None, asof)
                    /\ UNCHANGED storeFailed
               ELSE \* set_state raised inside the try: `except Exception` prints and continues
                    /\ storeFailed' = TRUE
                    /\ UNCHANGED stateLog
            /\ UNCHANGED pc
  /\ UNCHANGED <<startup, procs, provider, now, dimTable, memTable, capTable, priceTable, job, asof, force, args, ret,
                 todo, ingestedAt, priceVars, runs, logAtStart, inserted, fetchStart, rerun, firstWrote>>

\* if batch: client.insert("finance_yf.fact_market_cap", batch);  return total_rows
CapFinish ==
  /\ pc = "cap_loop" /\ i > Len(args)
  /\ \E insOk \in BOOLEAN :
       IF rows # <<>> /\ ~insOk
       THEN /\ pc' = "raised" /\ storeFailed' = TRUE
            /\ UNCHANGED <<capTable, inserted, ret>>
       ELSE /\ capTable' = capTable \cup Range(rows)
            /\ inserted' = inserted \cup Tag("fact_market_cap", Range(rows))
            /\ pc' = "done" /\ ret' = total /\ UNCHANGED storeFailed
  /\ lastOutcome' = "NONE"
  /\ UNCHANGED <<startup, procs, provider, now, stateLog, dimTable, memTable, priceTable, job, asof, force, args, i,
                 rows, total, todo, ingestedAt, priceVars, runs, logAtStart, fetched,
                 fetchedOk, fetchStart, rerun, firstWrote>>

\* -------------------------------------------------------- ingest_stock_prices
OverlapArgs == {0, DayLen}      \* --overlap-days: 0 or 1 day
LookbackArgs == {DayLen}        \* --lookback-days: 1 day
ChunkArgs == {1, 2}             \* --chunk-size

\* NARROWING: the window starts at the latest candidate
EarliestNarrow(log, ch, f, base, O) ==
  IF f \/ ch = <<>> THEN base
  ELSE SetMax({base} \cup
              {get_state(log, Source, "fact_stock_prices", PriceKey(ch[n]))[1] - O :
                 n \in {m \in 1..Len(ch) :
                          IsSet(get_state(log, Source, "fact_stock_prices", PriceKey(ch[m]))[1])}})

RECURSIVE Earliest(_, _, _, _, _)
\* earliest = ingested_at - timedelta(days=default_lookback_days)
\* if not force: for t in chunk: last_ts, _ = get_state(...)
\*   if last_ts: start = last_ts - timedelta(days=overlap_days); if start < earliest: earliest = start
Earliest(log, ch, f, base, O) ==
  IF f \/ ch = <<>> THEN base
  ELSE LET last_ts == get_state(log, Source, "fact_stock_prices", PriceKey(Head(ch)))[1]
           e == IF IsSet(last_ts) /\ last_ts - O < base THEN last_ts - O ELSE base
       IN Earliest(log, Tail(ch), f, e, O)

\* SHORT SLICE: lst[i : i + 1], the rest of each group is dropped
ChunkAtOne(lst, pos, n) == SubSeq(lst, pos, Min2(pos, Len(lst)))

\* chunked(lst, n): lst[i : i + n]
ChunkAt(lst, pos, n) == SubSeq(lst, pos, Min2(pos + n - 1, Len(lst)))

\* What yf.download returns for one ticker of the chunk: no column group at all
\* ("absent", the ticker failed inside the download), every bar from start to now
\* ("full"), or the same with a NaN close in the newest bar ("nanlast").
TickerFrames == {"absent", "full", "nanlast"}

\* the raw bars of one ticker: [ts, close] with close "ok" or "nan"
RawBars(opt, start, t) ==
  IF opt = "absent" THEN {}
  ELSE {[ts |-> ts, close |-> IF opt = "nanlast" /\ ts = t THEN "nan" ELSE "ok"] :
          ts \in {x \in 0..t : x >= start}}

\* The frames a download of chunk ch can return: MultiIndex columns grouped by
\* ticker, or, for a single ticker, flat columns.
DownloadFrames(ch, start, t) ==
  {[multi |-> TRUE, data |-> [n \in 1..Len(ch) |-> RawBars(o[n], start, t)]] :
     o \in [1..Len(ch) -> TickerFrames]}
  \cup (IF Len(ch) = 1
        THEN {[multi |-> FALSE, data |-> <<RawBars("full", start, t)>>]}
        ELSE {})

\* how much of what the provider holds from start on a frame carries: every bar
\* with a usable close ("full"), every bar ("complete"), less ("partial")
FrameKind(df, ch, start, t) ==
  IF \A n \in 1..Len(ch) : df.data[n] = RawBars("full", start, t) THEN "full"
  ELSE IF \A n \in 1..Len(ch) : df.data[n] \in {RawBars("full", start, t),
                                                 RawBars("nanlast", start, t)}
  THEN "complete"
  ELSE "partial"

\* the weaker of two frame kinds
Weaker(a, b) ==
  IF "partial" \in {a, b} THEN "partial"
  ELSE IF "complete" \in {a, b} THEN "complete"
  ELSE "full"

\* BREAK ALWAYS: the loop over the tickers stops after the first part
normalize_download_first(df, ch) ==
  [n \in 1..Len(ch) |->
     IF n = 1 THEN {b.ts : b \in {x \in df.data[n] : x.close # "nan"}} ELSE {}]

\* normalize_download: per ticker of the chunk the timestamps of its bars, NaN
\* closes dropped; a ticker without a column group or without bars has no part.
\* With flat columns the whole frame goes to the first ticker (`if not multi: break`).
\* Result: sequence over the chunk's positions of sets of ts.
normalize_download(df, ch) ==
  [n \in 1..Len(ch) |->
     IF df.multi \/ n = 1
     THEN {b.ts : b \in {x \in df.data[n] : x.close # "nan"}}
     ELSE {}]

\* norm[norm["ticker"] == t]: every part whose ticker is t
SubOf(nrm, ch, t) == UNION {nrm[n] : n \in {m \in 1..Len(ch) : ch[m] = t}}

\* norm.empty
FrameEmpty(nrm) == \A n \in 1..Len(nrm) : nrm[n] = {}

\* FILTER LOST: sub is taken as it is
FilterNewOff(sub, last_ts, f) == sub

\* NON-STRICT FILTER: sub[sub["ts"] >= last_ts]
FilterNewInclusive(sub, last_ts, f) ==
  IF ~f /\ IsSet(last_ts) THEN {ts \in sub : ts >= last_ts} ELSE sub

\* if not force: last_ts, _ = get_state(...); if last_ts: sub = sub[sub["ts"] > last_ts]
FilterNew(sub, last_ts, f) ==
  IF ~f /\ IsSet(last_ts) THEN {ts \in sub : ts > last_ts} ELSE sub

PriceRows(t, sub) == {[ts |-> ts, ticker |-> t, interval |-> Interval] : ts \in sub}

\* WATERMARK ON FAILURE: the state row is written although the insert raised
LogWhenInsertRaisesAdvanced(log, t, sub) ==
  set_state(log, Source, "fact_stock_prices", PriceKey(t), SetMax(sub), None)

\* the state log when client.insert raises: the exception leaves the function
\* before max_ts and set_state are reached
LogWhenInsertRaises(log, t, sub) == log

PriceStart(tickersArg, O, D, n, f, again) ==
  /\ \E queryOk \in BOOLEAN : \E lst \in (IF tickersArg = <<>>
                                          THEN SeqsOf(LatestMembershipTickers(memTable))
                                          ELSE {tickersArg}) :
       /\ (tickersArg # <<>> => queryOk)
       /\ BeginRun("fact_stock_prices", None, f,
                   IF queryOk THEN SelectKeys(lst, <<>>) ELSE <<>>, again)
       /\ IF queryOk
          THEN pc' = "px_chunk" /\ storeFailed' = FALSE
          ELSE pc' = "raised" /\ storeFailed' = TRUE
  /\ overlap' = O /\ lookback' = D /\ chunkSize' = n
  /\ ret' = None /\ lastOutcome' = "NONE"
  /\ UNCHANGED todo

\* one pass of `for chunk in chunked(tickers, chunk_size)` up to the per-ticker loop
PriceChunk ==
  /\ pc = "px_chunk" /\ i <= Len(args)
  /\ LET ch == ChunkAt(args, i, chunkSize)
         start == DateOf(Earliest(stateLog, ch, force, ingestedAt - lookback, overlap))
     IN \E readOk \in BOOLEAN :
        /\ (force => readOk)
        /\ IF ~readOk
           THEN /\ pc' = "raised" /\ storeFailed' = TRUE /\ lastOutcome' = "NONE"
                /\ UNCHANGED <<i, j, chunk, norm, fetched, fetchStart, provider>>
           ELSE /\ fetchStart' = <<start>>
                /\ fetched' = fetched \cup Range(ch)
                /\ UNCHANGED storeFailed
                /\ \/ \* yf.download raises: nothing in the job catches it
                      /\ pc' = "raised" /\ lastOutcome' = "DOWNLOAD_RAISED"
                      /\ provider' = "partial"
                      /\ UNCHANGED <<i, j, chunk, norm>>
                   \/ \E df \in DownloadFrames(ch, start, now) :
                        LET nrm == normalize_download(df, ch) IN
                        /\ provider' = Weaker(provider, FrameKind(df, ch, start, now))
                        /\ IF FrameEmpty(nrm)
                           THEN /\ i' = i + chunkSize /\ lastOutcome' = "EMPTY"
                                /\ UNCHANGED <<pc, j, chunk, norm>>
                           ELSE /\ pc' = "px_ticker" /\ chunk' = ch /\ norm' = nrm /\ j' = 1
                                /\ lastOutcome' = "FETCHED"
                                /\ UNCHANGED i
  /\ UNCHANGED <<startup, procs, now, storeVars, job, asof, force, args, rows, total, ret, todo, ingestedAt,
                 overlap, lookback, chunkSize, runs, logAtStart, inserted, fetchedOk,
                 rerun, firstWrote>>

\* one pass of `for t in chunk`: filter, insert, set_state
PriceTicker ==
  /\ pc = "px_ticker" /\ j <= Len(chunk)
  /\ LET t == chunk[j]
         sub0 == SubOf(norm, chunk, t)
         last_ts == get_state(stateLog, Source, "fact_stock_prices", PriceKey(t))[1]
         sub == FilterNew(sub0, last_ts, force)
     IN IF sub0 = {}
        THEN /\ j' = j + 1 /\ lastOutcome' = "EMPTY"
             /\ UNCHANGED <<pc, total, stateLog, priceTable, inserted, fetchedOk, storeFailed>>
        ELSE \E readOk, insOk, setOk \in BOOLEAN :
          /\ (force => readOk)
          /\ IF ~readOk
             THEN /\ pc' = "raised" /\ storeFailed' = TRUE /\ lastOutcome' = "NONE"
                  /\ UNCHANGED <<j, total, stateLog, priceTable, inserted, fetchedOk>>
             ELSE IF sub = {}
             THEN /\ j' = j + 1 /\ lastOutcome' = "FILTERED"
                  /\ UNCHANGED <<pc, total, stateLog, priceTable, inserted, fetchedOk,
                                 storeFailed>>
             ELSE IF ~insOk
             THEN /\ pc' = "raised" /\ storeFailed' = TRUE /\ lastOutcome' = "INSERT_FAILED"
                  /\ fetchedOk' = fetchedOk \cup {t}
                  /\ stateLog' = LogWhenInsertRaises(stateLog, t, sub)
                  /\ UNCHANGED <<j, total, priceTable, inserted>>
             ELSE /\ priceTable' = priceTable \cup PriceRows(t, sub)
                  /\ inserted' = inserted \cup Tag("fact_stock_prices", PriceRows(t, sub))
                  /\ fetchedOk' = fetchedOk \cup {t}
                  /\ IF ~setOk
                     THEN /\ pc' = "raised" /\ storeFailed' = TRUE
                          /\ lastOutcome' = "STATE_FAILED"
                          /\ UNCHANGED <<j, total, stateLog>>
                     ELSE /\ stateLog' = set_state(stateLog, Source, "fact_stock_prices",
                                                   PriceKey(t), SetMax(sub), None)
                          /\ total' = total + Cardinality(sub)
                          /\ j' = j + 1 /\ lastOutcome' = "OK"
                          /\ UNCHANGED <<pc, storeFailed>>
  /\ UNCHANGED <<startup, procs, provider, now, dimTable, memTable, capTable, job, asof, force, args, i, rows, ret,
                 todo, ingestedAt, overlap, lookback, chunkSize, chunk, norm, runs,
                 logAtStart, fetched, fetchStart, rerun, firstWrote>>

\* the per-ticker loop of a chunk is over: next chunk
PriceChunkEnd ==
  /\ pc = "px_ticker" /\ j > Len(chunk)
  /\ pc' = "px_chunk" /\ i' = i + chunkSize
  /\ chunk' = <<>> /\ norm' = <<>> /\ j' = 1
  /\ lastOutcome' = "NONE"
  /\ UNCHANGED <<startup, procs, provider, now, storeVars, job, asof, force, args, rows, total, ret, todo, ingestedAt,
                 overlap, lookback, chunkSize, runs, logAtStart, inserted, fetched,
                 fetchedOk, storeFailed, fetchStart, rerun, firstWrote>>

\* return total
PriceFinish ==
  /\ pc = "px_chunk" /\ i > Len(args)
  /\ pc' = "done" /\ ret' = total
  /\ lastOutcome' = "NONE"
  /\ UNCHANGED <<startup, procs, provider, now, storeVars, job, asof, force, args, i, rows, total, todo, ingestedAt,
                 priceVars, runs, logAtStart, inserted, fetched, fetchedOk, storeFailed,
                 fetchStart, rerun, firstWrote>>

\* ingest_stock_prices as a function of what it reads: the state log, the ticker
\* list, its parameters, the clock at entry (ing) and a provider that returns
\* every bar it holds up to provNow.  st = [log, ins]: state log, rows inserted.
RECURSIVE RunTickers(_, _, _, _, _)
\* `for t in chunk`: filter, insert, set_state
RunTickers(st, ch, nrm, k, f) ==
  IF k > Len(ch) THEN st
  ELSE LET t == ch[k]
           last_ts == get_state(st.log, Source, "fact_stock_prices", PriceKey(t))[1]
           sub == FilterNew(SubOf(nrm, ch, t), last_ts, f)
       IN RunTickers(IF sub = {} THEN st
                     ELSE [log |-> set_state(st.log, Source, "fact_stock_prices",
                                             PriceKey(t), SetMax(sub), None),
                           ins |-> st.ins \cup PriceRows(t, sub)],
                     ch, nrm, k + 1, f)

RECURSIVE RunChunks(_, _, _, _, _, _, _, _, _)
\* `for chunk in chunked(tickers, chunk_size)`
RunChunks(st, tickers, pos, O, D, n, ing, provNow, f) ==
  IF pos > Len(tickers) THEN st
  ELSE LET ch == ChunkAt(tickers, pos, n)
           start == DateOf(Earliest(st.log, ch, f, ing - D, O))
           df == [multi |-> TRUE,
                  data |-> [m \in 1..Len(ch) |-> RawBars("full", start, provNow)]]
       IN RunChunks(RunTickers(st, ch, normalize_download(df, ch), 1, f),
                    tickers, pos + n, O, D, n, ing, provNow, f)

RunPrices(log, tickers, O, D, n, ing, provNow, f) ==
  RunChunks([log |-> log, ins |-> {}], tickers, 1, O, D, n, ing, provNow, f)

NextPrices ==
  \/ Tick
  \/ Return
  \/ \E t \in TickerArgs, O \in OverlapArgs, D \in LookbackArgs, n \in ChunkArgs, f \in BOOLEAN :
       PriceStart(t, O, D, n, f, FALSE)
  \/ PriceChunk
  \/ PriceTicker
  \/ PriceChunkEnd
  \/ PriceFinish

SpecPrices == Init /\ [][NextPrices]_vars

\* the caller invokes the job that has just returned once more: same arguments,
\* same as-of date, force off
Again ==
  /\ pc = "done" /\ ~force
  /\ \/ job = "dim_industry" /\ DimStart(args, asof, FALSE, TRUE)
     \/ job = "industry_membership" /\ MemStart(asof, FALSE, TRUE)
     \/ job = "fact_market_cap" /\ CapStart(args, asof, FALSE, TRUE)

NextSnap ==
  \/ Return
  \/ Again
  \/ \E s \in SectorArgs, a \in AsofArgs, f \in BOOLEAN : DimStart(s, a, f, FALSE)
  \/ DimSector
  \/ DimFinish
  \/ \E a \in AsofArgs, f \in BOOLEAN : MemStart(a, f, FALSE)
  \/ MemIndustry
  \/ MemFinish
  \/ \E t \in TickerArgs, a \in AsofArgs, f \in BOOLEAN : CapStart(t, a, f, FALSE)
  \/ CapTicker
  \/ CapFinish

SpecSnap == Init /\ [][NextSnap]_vars

\* the four jobs on one store
Next == NextSnap \/ NextPrices

Spec == Init /\ [][Next]_vars

\* ------------------------------------------- the state accessor on its own
\* (source, target, key) triples that differ from the first in one component each
StateKeys ==
  { <<"yfinance", "fact_market_cap", "A">>,
    <<"yfinance", "fact_market_cap", "B">>,
    <<"yfinance", "fact_stock_prices", "A">>,
    <<"other", "fact_market_cap", "A">> }

\* (last_ts, last_asof_date) pairs a caller passes to set_state
StateVals == { <<1, None>>, <<0, None>>, <<None, DayLen>> }

\* a caller appends a state row
SetStateCall(k, v) ==
  /\ pc = "idle" /\ runs = 0
  /\ Len(stateLog) < MaxLog
  /\ stateLog' = set_state(stateLog, k[1], k[2], k[3], v[1], v[2])
  /\ job' = "set_state" /\ args' = k /\ ret' = None
  /\ UNCHANGED <<startup, procs, provider, now, dimTable, memTable, capTable, priceTable, pc, asof, force, i, rows,
                 total, todo, ingestedAt, priceVars, runs, logAtStart, inserted, fetched,
                 fetchedOk, lastOutcome, storeFailed, fetchStart, rerun, firstWrote>>

\* a caller reads the state of a key; ret holds what get_state returned
GetStateCall(k) ==
  /\ pc = "idle" /\ runs = 0
  /\ job' = "get_state" /\ args' = k
  /\ ret' = get_state(stateLog, k[1], k[2], k[3])
  /\ UNCHANGED <<startup, procs, provider, now, storeVars, pc, asof, force, i, rows, total, todo, ingestedAt,
                 priceVars, runs, logAtStart, inserted, fetched, fetchedOk, lastOutcome,
                 storeFailed, fetchStart, rerun, firstWrote>>

NextState ==
  \/ \E k \in StateKeys, v \in StateVals : SetStateCall(k, v)
  \/ \E k \in StateKeys : GetStateCall(k)

SpecState == Init /\ [][NextState]_vars

\* ------------------------- two processes running ingest_stock_prices at once
\* Each process runs ingest_stock_prices(["A"]) without force: one chunk of one
\* ticker.  Every store call and the download is a step of its own; the clock may
\* move between any two steps, and the provider holds every bar up to the clock.
soloVars == <<dimTable, memTable, capTable, pc, job, asof, force, args, i, rows, total, ret,
              todo, ingestedAt, overlap, lookback, chunkSize, chunk, norm, j, runs,
              logAtStart, inserted, fetched, fetchedOk, lastOutcome, storeFailed,
              fetchStart, rerun, firstWrote, provider, startup>>

ConcTicker == "A"

\* the clock moves while the processes run
ConcTick ==
  /\ now < MaxNow
  /\ \E p \in Procs : procs[p].pc # "idle"
  /\ now' = now + 1
  /\ UNCHANGED <<stateLog, priceTable, procs, soloVars>>

\* ingested_at = utc_now_s(); earliest = ingested_at - timedelta(days=default_lookback_days)
ConcStart(p, O, D) ==
  /\ procs[p].pc = "idle"
  /\ procs' = [procs EXCEPT ![p] = [pc |-> "state1", ingested_at |-> now, overlap |-> O,
                                    lookback |-> D, earliest |-> now - D, sub |-> {},
                                    downloaded_at |-> 0]]
  /\ UNCHANGED <<now, stateLog, priceTable, soloVars>>

\* last_ts, _ = get_state(...); if last_ts: start = last_ts - overlap; if start < earliest: ...
ConcEarliest(p) ==
  /\ procs[p].pc = "state1"
  /\ procs' = [procs EXCEPT ![p].pc = "download",
                            ![p].earliest = Earliest(stateLog, <<ConcTicker>>, FALSE,
                                                     procs[p].earliest, procs[p].overlap)]
  /\ UNCHANGED <<now, stateLog, priceTable, soloVars>>

\* raw = yf.download(..., start=earliest.date()); norm = normalize_download(raw, chunk, interval)
\* if norm.empty: continue;  sub = norm[norm["ticker"] == t]; if sub.empty: continue
ConcDownload(p) ==
  /\ procs[p].pc = "download"
  /\ LET ch == <<ConcTicker>>
         df == [multi |-> TRUE,
                data |-> <<RawBars("full", DateOf(procs[p].earliest), now)>>]
         sub == SubOf(normalize_download(df, ch), ch, ConcTicker)
     IN procs' = [procs EXCEPT ![p].pc = IF sub = {} THEN "done" ELSE "state2",
                               ![p].sub = sub,
                               ![p].downloaded_at = now]
  /\ UNCHANGED <<now, stateLog, priceTable, soloVars>>

\* last_ts, _ = get_state(...); if last_ts: sub = sub[sub["ts"] > last_ts]; if sub.empty: continue
ConcFilter(p) ==
  /\ procs[p].pc = "state2"
  /\ LET last_ts == get_state(stateLog, Source, "fact_stock_prices", PriceKey(ConcTicker))[1]
         sub == FilterNew(procs[p].sub, last_ts, FALSE)
     IN procs' = [procs EXCEPT ![p].pc = IF sub = {} THEN "done" ELSE "insert",
                               ![p].sub = sub]
  /\ UNCHANGED <<now, stateLog, priceTable, soloVars>>

\* client.insert("finance_yf.fact_stock_prices", records, ...)
ConcInsert(p) ==
  /\ procs[p].pc = "insert"
  /\ priceTable' = priceTable \cup PriceRows(ConcTicker, procs[p].sub)
  /\ procs' = [procs EXCEPT ![p].pc = "set_state"]
  /\ UNCHANGED <<now, stateLog, soloVars>>

\* max_ts = max(rec[0] for rec in records); set_state(..., last_ts=max_ts); return total
ConcSetState(p) ==
  /\ procs[p].pc = "set_state"
  /\ stateLog' = set_state(stateLog, Source, "fact_stock_prices", PriceKey(ConcTicker),
                           SetMax(procs[p].sub), None)
  /\ procs' = [procs EXCEPT ![p].pc = "done"]
  /\ UNCHANGED <<now, priceTable, soloVars>>

NextConc ==
  \/ ConcTick
  \/ \E p \in Procs, O \in OverlapArgs, D \in LookbackArgs : ConcStart(p, O, D)
  \/ \E p \in Procs : ConcEarliest(p)
  \/ \E p \in Procs : ConcDownload(p)
  \/ \E p \in Procs : ConcFilter(p)
  \/ \E p \in Procs : ConcInsert(p)
  \/ \E p \in Procs : ConcSetState(p)

SpecConc == Init /\ [][NextConc]_vars

\* ------------------------------------- the numeric columns of one price bar
\* A bar of the downloaded frame as <<Open, High, Low, Close, Adj Close>>; each
\* column holds a price, NaN, or is not in the frame at all.
NaN == -2         \* float("nan")
Absent == -3      \* the frame has no such column
Prices == {1, 2}
ColOpen == 1
ColHigh == 2
ColLow == 3
ColClose == 4
ColAdj == 5
Columns == {ColOpen, ColHigh, ColLow, ColClose, ColAdj}
RawBar == [Columns -> Prices \cup {NaN, Absent}]

\* normalize_download: `if col not in sub.columns: sub[col] = 0.0`, then
\* pd.to_numeric(..., errors="coerce") keeps numbers and NaN as they are
FillColumns(raw) == [c \in Columns |-> IF raw[c] = Absent THEN 0 ELSE raw[c]]

\* out.dropna(subset=["close"])
DroppedBar(bar) == bar[ColClose] = NaN

\* float(r.x) if pd.notna(r.x) else float(r.close)
OrClose(bar, c) == IF bar[c] # NaN THEN bar[c] ELSE bar[ColClose]

\* the numeric part of the tuple appended to records: (open, high, low, close, adj)
RecordOf(bar) ==
  <<OrClose(bar, ColOpen), OrClose(bar, ColHigh), OrClose(bar, ColLow),
    bar[ColClose], OrClose(bar, ColAdj)>>

\* one bar goes through normalize_download and the records loop; args holds the
\* bar as downloaded, ret the record written (<<>> when the bar is dropped)
IngestBar(raw) ==
  /\ pc = "idle" /\ runs = 0
  /\ job' = "price_record" /\ args' = raw
  /\ ret' = IF DroppedBar(FillColumns(raw)) THEN <<>> ELSE RecordOf(FillColumns(raw))
  /\ UNCHANGED <<startup, procs, provider, now, storeVars, pc, asof, force, i, rows, total, todo,
                 ingestedAt, priceVars, runs, logAtStart, inserted, fetched, fetchedOk,
                 lastOutcome, storeFailed, fetchStart, rerun, firstWrote>>

NextBar == \E raw \in RawBar : IngestBar(raw)

SpecBar == Init /\ [][NextBar]_vars

\* ------------------------------------------------------ wait_for_clickhouse
Attempts == 30        \* for _ in range(30)
SleepSeconds == 1     \* time.sleep(1)

\* what the try body of one pass can do: get_client raises, c.command("SELECT 1")
\* raises, both return and c.close() returns, both return and c.close() raises
ProbeOutcomes == {"connect_error", "command_error", "ok", "ok_close_error"}

\* CLOSE NOT SWALLOWED: an exception of c.close() counts as a failed pass
ProbeOkStrict(o) == o = "ok"

\* the pass reaches `return`: get_client and command returned; c.close() is in a
\* try of its own whose except passes
ProbeOk(o) == o \in {"ok", "ok_close_error"}

everythingElse == <<now, stateLog, priceTable, procs, dimTable, memTable, capTable, pc, job,
                    asof, force, args, i, rows, total, ret, todo, ingestedAt, overlap,
                    lookback, chunkSize, chunk, norm, j, runs, logAtStart, inserted,
                    fetched, fetchedOk, lastOutcome, storeFailed, fetchStart, rerun,
                    firstWrote, provider>>

\* the startup event fires: last_err = None, first pass of the loop
StartupBegin ==
  /\ startup.pc = "off"
  /\ startup' = [startup EXCEPT !.pc = "probe", !.attempt = 1]
  /\ UNCHANGED everythingElse

\* the try body of one pass: return, or `except Exception as e: last_err = e`
StartupProbe ==
  /\ startup.pc = "probe"
  /\ \E o \in ProbeOutcomes :
       startup' = IF ProbeOk(o)
                  THEN [startup EXCEPT !.pc = "ready", !.result = o]
                  ELSE [startup EXCEPT !.pc = "sleep", !.result = o, !.last_err = o,
                                       !.failed = @ + 1]
  /\ UNCHANGED everythingElse

\* time.sleep(1), then the next pass, or after the last one the raise RuntimeError
StartupSleep ==
  /\ startup.pc = "sleep"
  /\ startup' = IF startup.attempt < Attempts
                THEN [startup EXCEPT !.pc = "probe", !.attempt = @ + 1,
                                     !.slept = @ + SleepSeconds]
                ELSE [startup EXCEPT !.pc = "fatal", !.slept = @ + SleepSeconds]
  /\ UNCHANGED everythingElse

NextStartup == StartupBegin \/ StartupProbe \/ StartupSleep

\* the hook runs in one thread and every call in it returns or raises: a step
\* that can be taken is taken
SpecStartup == Init /\ [][NextStartup]_vars /\ WF_vars(NextStartup)

\* ================================================================ properties

RECURSIVE LastWritten(_, _, _, _)
\* the watermark pair of the row appended last for the key, by position in the log
LastWritten(log, source, target, key) ==
  IF log = <<>> THEN <<None, None>>
  ELSE LET r == log[Len(log)] IN
       IF r.source = source /\ r.target = target /\ r.key = key
       THEN <<r.last_ts, r.last_asof_date>>
       ELSE LastWritten(SubSeq(log, 1, Len(log) - 1), source, target, key)

\* C7: get_state returns the pair of the row written last for exactly the key read,
\* (None, None) when the key has no row; set_state appends exactly one row, leaves
\* every earlier row as it was, and leaves get_state of every other key unchanged.
C7_GetSetState ==
  /\ [](job = "get_state" => ret = LastWritten(stateLog, args[1], args[2], args[3]))
  /\ [][job' = "set_state" /\ stateLog' # stateLog =>
          /\ Len(stateLog') = Len(stateLog) + 1
          /\ SubSeq(stateLog', 1, Len(stateLog)) = stateLog
          /\ \A k \in StateKeys \ {args'} :
               get_state(stateLog', k[1], k[2], k[3]) = get_state(stateLog, k[1], k[2], k[3])
          /\ get_state(stateLog', args'[1], args'[2], args'[3])
               = <<stateLog'[Len(stateLog')].last_ts, stateLog'[Len(stateLog')].last_asof_date>>
       ]_vars

\* a key with two rows of different watermarks, another key's row between them,
\* and a read that returned the later pair
C7_Witness ==
  /\ job = "get_state" /\ Len(stateLog) = 3
  /\ args = <<"yfinance", "fact_market_cap", "A">>
  /\ stateLog[1].key = "A" /\ stateLog[1].target = "fact_market_cap"
  /\ stateLog[1].source = "yfinance" /\ stateLog[1].last_ts = 1
  /\ stateLog[2].source = "other"
  /\ stateLog[3].key = "A" /\ stateLog[3].target = "fact_market_cap"
  /\ stateLog[3].source = "yfinance" /\ stateLog[3].last_ts = 0
  /\ ret = <<0, None>>

SnapshotJobs == {"dim_industry", "industry_membership", "fact_market_cap"}

\* writes of the current invocation: data rows inserted, state rows appended
NoWrites == inserted = {} /\ Len(stateLog) = logAtStart

\* the watermark pair a key had when the current invocation started
PreRun(target, key) == LastWritten(SubSeq(stateLog, 1, logAtStart), Source, target, key)

\* the watermark pair a key has now
Current(target, key) == LastWritten(stateLog, Source, target, key)

\* C1 as claimed: every repeat of a snapshot job (same arguments, same as-of date,
\* force off, right after the first returned) writes nothing and returns 0.
C1_RepeatWritesNothing ==
  rerun /\ job \in SnapshotJobs => NoWrites /\ (pc = "done" => ret = 0)

\* C1 amended: a repeat of ingest_dim_industry or ingest_membership fetches nothing,
\* writes nothing and, when it returns, returns 0; a repeat of ingest_market_cap
\* fetches and writes nothing for the tickers whose state row the first invocation
\* appended (it may fetch and write the others).
C1_RepeatAmended ==
  rerun =>
    /\ job \in {"dim_industry", "industry_membership"} =>
         /\ NoWrites /\ fetched = {} /\ rows = <<>>
         /\ pc \in {"done", "raised"}
         /\ (pc = "done" => ret = 0)
    /\ job = "fact_market_cap" =>
         \A k \in firstWrote :
           /\ k \notin fetched
           /\ \A x \in inserted : x.row.ticker # k
           /\ \A n \in 1..Len(rows) : rows[n].ticker # k
           /\ k \notin KeysSince(stateLog, logAtStart)

\* a repeat of ingest_market_cap that skipped the ticker the first invocation
\* recorded and wrote the one it had not
C1_Witness ==
  /\ rerun /\ job = "fact_market_cap" /\ pc = "done"
  /\ args = <<"A", "B">>
  /\ firstWrote = {"A"}
  /\ fetched = {"B"}
  /\ ret = 1
  /\ inserted = Tag("fact_market_cap", {[asof_date |-> asof, ticker |-> "B"]})

\* C2 as claimed: for every key the watermarks appended to the state log, in the
\* order they were appended, never decrease.
C2_WatermarksNonDecreasing ==
  \A m, n \in 1..Len(stateLog) :
    m < n /\ stateLog[m].source = stateLog[n].source
          /\ stateLog[m].target = stateLog[n].target
          /\ stateLog[m].key = stateLog[n].key
      => /\ stateLog[m].last_ts <= stateLog[n].last_ts
         /\ stateLog[m].last_asof_date <= stateLog[n].last_asof_date

PriceInserted == {x.row : x \in {y \in inserted : y.table = "fact_stock_prices"}}

\* no price row the invocation inserted is at or below its key's pre-run watermark
AboveWatermark ==
  \A r \in PriceInserted :
    LET L == PreRun("fact_stock_prices", PriceKey(r.ticker))[1]
    IN IsSet(L) => r.ts > L

\* C3 as claimed: whatever the force flag, no inserted price row has a timestamp
\* at or below the watermark its key had before the run.
C3_StrictFilter == job = "fact_stock_prices" => AboveWatermark

\* C3 amended: with force off, no inserted price row has a timestamp at or below
\* the watermark its key had before the run.
C3_StrictFilterNoForce == job = "fact_stock_prices" /\ ~force => AboveWatermark

\* a run without force whose fetched window began at or before the watermark of a
\* ticker and which inserted rows for that ticker
C3_Witness ==
  /\ job = "fact_stock_prices" /\ ~force /\ fetchStart # <<>>
  /\ \E r \in PriceInserted :
       LET L == PreRun("fact_stock_prices", PriceKey(r.ticker))[1]
       IN IsSet(L) /\ fetchStart[1] <= L /\ r.ts = L + 1

\* C4: with force off the start passed to the provider for a chunk is at most
\* now - default_lookback_days, at most L - overlap_days for every ticker of the
\* chunk with a watermark L, and exactly the date of now - default_lookback_days
\* when no ticker of the chunk has a watermark.
C4_FetchStart ==
  [][ pc = "px_chunk" /\ i <= Len(args) /\ ~force /\ ~storeFailed'
        => LET ch == ChunkAt(args, i, chunkSize)
               st == fetchStart'[1]
               Wm(t) == Current("fact_stock_prices", PriceKey(t))[1]
           IN /\ fetchStart' # <<>>
              /\ st <= ingestedAt - lookback
              /\ \A n \in 1..Len(ch) : IsSet(Wm(ch[n])) => st <= Wm(ch[n]) - overlap
              /\ (\A n \in 1..Len(ch) : ~IsSet(Wm(ch[n])))
                   => st = DateOf(ingestedAt - lookback)
    ]_vars

\* a chunk fetched without force from before the default lookback, because a
\* ticker's watermark less the overlap lies further back
C4_Witness ==
  /\ job = "fact_stock_prices" /\ ~force /\ pc = "px_ticker" /\ fetchStart # <<>>
  /\ fetchStart[1] < DateOf(ingestedAt - lookback)
  /\ \E n \in 1..Len(chunk) : IsSet(Current("fact_stock_prices", PriceKey(chunk[n]))[1])

\* the entities an invocation has to fetch
Entities ==
  CASE job = "dim_industry" -> Range(args)
    [] job = "industry_membership" -> {g[2] : g \in DimGroups(dimTable)}
    [] job = "fact_market_cap" ->
         {Strip(args[n]) : n \in {m \in 1..Len(args) : ValidId(args[m])}}
    [] job = "fact_stock_prices" -> Range(args)
    [] OTHER -> {}

\* the entity a data row belongs to
EntityOfRow(x) ==
  CASE x.table = "dim_industry" -> x.row.sector_key
    [] x.table = "industry_membership" -> x.row.industry_key
    [] OTHER -> x.row.ticker

\* the snapshot policy gated the entity out (market cap gates per ticker)
GatedOut(e) ==
  /\ job = "fact_market_cap" /\ ~force
  /\ IsSet(Current("fact_market_cap", e)[2])
  /\ Current("fact_market_cap", e)[2] >= asof

\* C5 as claimed: when an invocation ends, no store call having failed, every
\* entity of the invocation was fetched (unless gated out), whatever the fetches of
\* the others did, and every entity whose fetch gave rows has rows written.
C5_FailureIsolation ==
  pc \in {"done", "raised"} /\ ~storeFailed /\ lastOutcome # "SKIPPED" =>
    /\ \A e \in Entities : e \in fetched \/ GatedOut(e)
    /\ \A e \in fetchedOk : \E x \in inserted : EntityOfRow(x) = e

\* the data rows that belong to a state row have been inserted by this invocation
DataLanded(r) ==
  CASE r.target = "fact_market_cap" ->
         \E x \in inserted : /\ x.table = "fact_market_cap"
                             /\ x.row.ticker = r.key /\ x.row.asof_date = r.last_asof_date
    [] r.target = "fact_stock_prices" ->
         \E x \in inserted : /\ x.table = "fact_stock_prices"
                             /\ PriceKey(x.row.ticker) = r.key /\ x.row.ts = r.last_ts
    [] OTHER ->
         \A n \in 1..Len(rows) : [table |-> r.target, row |-> rows[n]] \in inserted

\* C6 as claimed: every state row an invocation has appended was appended after
\* the insert of the data rows of its key had returned.
C6_InsertBeforeState ==
  job \in SnapshotJobs \cup {"fact_stock_prices"} =>
    \A n \in (logAtStart + 1)..Len(stateLog) : DataLanded(stateLog[n])

\* C8: a snapshot job skips a key exactly when force is off and the key's last
\* recorded as-of date is at or after the requested one; a skipped key sees no
\* fetch, no data row and no state row.
C8_SkipIff ==
  [][ /\ runs' = runs + 1 /\ job' \in {"dim_industry", "industry_membership"}
        /\ ~storeFailed'
        => LET L == LastWritten(stateLog, Source, job', "ALL")[2]
               gate == ~force' /\ IsSet(L) /\ L >= asof'
           IN /\ (pc' = "done") <=> gate
              /\ (lastOutcome' = "SKIPPED") <=> gate
              /\ gate => /\ ret' = 0 /\ fetched' = {} /\ rows' = <<>>
                         /\ UNCHANGED storeVars
              /\ ~gate => pc' \in {"dim_loop", "mem_loop"}
      /\ pc = "cap_loop" /\ i' = i + 1 /\ ValidId(args[i])
        => LET L == LastWritten(stateLog, Source, "fact_market_cap", Strip(args[i]))[2]
               gate == ~force /\ IsSet(L) /\ L >= asof
           IN /\ (Strip(args[i]) \notin fetched') <=> gate
              /\ (lastOutcome' = "SKIPPED") <=> gate
              /\ gate => UNCHANGED <<storeVars, rows, total, fetched, pc>>
    ]_vars

\* an invocation of ingest_market_cap that skipped one ticker and fetched another
C8_Witness ==
  /\ job = "fact_market_cap" /\ ~force /\ pc = "done"
  /\ args = <<"A", "B">>
  /\ fetched = {"B"}
  /\ IsSet(PreRun("fact_market_cap", "A")[2])
  /\ PreRun("fact_market_cap", "A")[2] >= asof
  /\ ~IsSet(PreRun("fact_market_cap", "B")[2])

\* C9 as claimed: once a store call has failed in an invocation, the invocation
\* has raised: it processes nothing more.
C9_StoreFailurePropagates == storeFailed => pc = "raised"

\* C10: in ingest_market_cap a ticker whose fetch raises or carries no market cap
\* adds no row to the batch and no state row, and the loop goes on to the next
\* ticker; a run that returns has visited every ticker.
C10_CapFetchFailure ==
  /\ [][ pc = "cap_loop" /\ i <= Len(args)
           /\ lastOutcome' \in {"FETCH_FAILED", "NO_MARKETCAP"}
           => /\ rows' = rows /\ total' = total
              /\ stateLog' = stateLog /\ capTable' = capTable /\ inserted' = inserted
              /\ LastWritten(stateLog', Source, "fact_market_cap", Strip(args[i]))
                   = PreRun("fact_market_cap", Strip(args[i]))
              /\ pc' = "cap_loop" /\ i' = i + 1
       ]_vars
  /\ [](job = "fact_market_cap" /\ pc = "done" => i = Len(args) + 1)

\* a run in which the first ticker's fetch failed and the second ticker was
\* fetched, batched and inserted
C10_Witness ==
  /\ job = "fact_market_cap" /\ pc = "done" /\ args = <<"A", "B">>
  /\ fetched = {"A", "B"} /\ fetchedOk = {"B"}
  /\ ret = 1
  /\ inserted = Tag("fact_market_cap", {[asof_date |-> asof, ticker |-> "B"]})
  /\ ~IsSet(Current("fact_market_cap", "A")[2])
  /\ Current("fact_market_cap", "B")[2] = asof

\* C11 as claimed: with force on, the start passed to the provider for a chunk is
\* the start the same chunk gets with force off: the date of the least of
\* now - default_lookback_days and L - overlap_days over the chunk's watermarks L.
C11_ForceKeepsOverlap ==
  [][ pc = "px_chunk" /\ i <= Len(args) /\ force /\ fetchStart' # <<>>
        => fetchStart'[1] = DateOf(Earliest(stateLog, ChunkAt(args, i, chunkSize), FALSE,
                                            ingestedAt - lookback, overlap))
    ]_vars

\* the current invocation of ingest_stock_prices run again from its pre-run state
\* with one ticker per chunk, against a provider that returns every bar
OneByOne ==
  RunPrices(SubSeq(stateLog, 1, logAtStart), args, overlap, lookback, 1, ingestedAt, now, force)

RowsOf(rs, t) == {r \in rs : r.ticker = t}

\* a non-force run that returned and whose downloads returned every bar
FullRunDone ==
  job = "fact_stock_prices" /\ pc = "done" /\ ~force /\ provider = "full"

SameWatermarks ==
  \A t \in Range(args) :
    Current("fact_stock_prices", PriceKey(t))
      = LastWritten(OneByOne.log, Source, "fact_stock_prices", PriceKey(t))

Serial(p, q) ==
  LET one == RunPrices(<<>>, <<ConcTicker>>, procs[p].overlap, procs[p].lookback, 1,
                       procs[p].ingested_at, procs[p].downloaded_at, FALSE)
      two == RunPrices(one.log, <<ConcTicker>>, procs[q].overlap, procs[q].lookback, 1,
                       procs[q].ingested_at, procs[q].downloaded_at, FALSE)
  IN [table |-> one.ins \cup two.ins,
      watermark |-> get_state(two.log, Source, "fact_stock_prices", PriceKey(ConcTicker))]

BothDone == \A p \in Procs : procs[p].pc = "done"

\* C13 as claimed: when both concurrent invocations have finished, the price rows
\* and the effective watermark of the key are those of the two invocations run one
\* after the other in one of the two orders.
C13_ConcurrentAsSerial ==
  BothDone =>
    \E p, q \in Procs :
      /\ p # q
      /\ priceTable = Serial(p, q).table
      /\ get_state(stateLog, Source, "fact_stock_prices", PriceKey(ConcTicker))
           = Serial(p, q).watermark

\* a data row for the key with as-of date / timestamp equal to the watermark pair w
\* is in the key's table (rows get there by a completed insert only)
Backed(target, key, w) ==
  CASE target = "dim_industry" -> \E r \in dimTable : r.asof_date = w[2]
    [] target = "industry_membership" -> \E r \in memTable : r.asof_date = w[2]
    [] target = "fact_market_cap" ->
         \E r \in capTable : r.ticker = key /\ r.asof_date = w[2]
    [] target = "fact_stock_prices" ->
         \E r \in priceTable : PriceKey(r.ticker) = key /\ r.ts = w[1]
    [] OTHER -> FALSE

\* C14 as claimed: in every state, the effective watermark of every key that has
\* one is the as-of date / timestamp of a row of that key that has been inserted.
C14_WatermarkBacked ==
  \A n \in 1..Len(stateLog) :
    LET r == stateLog[n] IN
    Backed(r.target, r.key, get_state(stateLog, r.source, r.target, r.key))

\* position in args of the ticker the per-ticker loop is at
TickerPos == i + j - 1

\* the price rows the current invocation inserted for ticker t
InsertedFor(t) == RowsOf(PriceInserted, t)

\* C15: when the insert for a ticker raises, the invocation ends there and writes
\* nothing more; every ticker processed before it has the watermark the run gave it
\* (the newest timestamp inserted for it, or its pre-run watermark when nothing was
\* inserted), and the ticker and every ticker after it have their pre-run watermark.
C15_InsertFailureKeepsWatermarks ==
  /\ [][ pc = "px_ticker" /\ lastOutcome' = "INSERT_FAILED"
           => /\ pc' = "raised"
              /\ priceTable' = priceTable
              /\ LastWritten(stateLog', Source, "fact_stock_prices", PriceKey(chunk[j]))
                   = Current("fact_stock_prices", PriceKey(chunk[j]))
       ]_vars
  /\ [](job = "fact_stock_prices" /\ pc = "raised" /\ lastOutcome = "INSERT_FAILED" =>
          \A n \in 1..Len(args) :
            LET w == Current("fact_stock_prices", PriceKey(args[n]))
                pre == PreRun("fact_stock_prices", PriceKey(args[n]))
            IN IF n < TickerPos /\ InsertedFor(args[n]) # {}
               THEN w = <<SetMax({r.ts : r \in InsertedFor(args[n])}), None>>
               ELSE w = pre)

\* the insert for the second ticker raised after the first ticker's watermark had
\* been advanced past its pre-run value
C15_Witness ==
  /\ job = "fact_stock_prices" /\ pc = "raised" /\ lastOutcome = "INSERT_FAILED"
  /\ args = <<"A", "B">> /\ TickerPos = 2
  /\ IsSet(PreRun("fact_stock_prices", PriceKey("A"))[1])
  /\ Current("fact_stock_prices", PriceKey("A"))[1]
       > PreRun("fact_stock_prices", PriceKey("A"))[1]
  /\ IsSet(PreRun("fact_stock_prices", PriceKey("B"))[1])

\* C16: a step of the per-ticker loop that inserts rows and does not fail appends
\* one state row for the ticker's key whose last_ts is the newest timestamp of
\* exactly the rows inserted in that step; with force off that last_ts is above
\* the ticker's pre-run watermark.
C16_WatermarkIsMaxInserted ==
  [][ pc = "px_ticker" /\ inserted' # inserted /\ ~storeFailed'
        => LET new == {x.row : x \in inserted' \ inserted}
               r == stateLog'[Len(stateLog')]
               pre == PreRun("fact_stock_prices", PriceKey(chunk[j]))[1]
           IN /\ Len(stateLog') = Len(stateLog) + 1
              /\ SubSeq(stateLog', 1, Len(stateLog)) = stateLog
              /\ r.source = Source /\ r.target = "fact_stock_prices"
              /\ r.key = PriceKey(chunk[j])
              /\ \A x \in new : x.ticker = chunk[j] /\ x.ts <= r.last_ts
              /\ \E x \in new : x.ts = r.last_ts
              /\ (~force /\ IsSet(pre) => r.last_ts > pre)
    ]_vars

\* a non-force step inserted two rows above the ticker's watermark and recorded
\* the newer one
C16_Witness ==
  /\ job = "fact_stock_prices" /\ ~force /\ lastOutcome = "OK" /\ pc = "px_ticker"
  /\ \E t \in Range(args) :
       /\ IsSet(PreRun("fact_stock_prices", PriceKey(t))[1])
       /\ Cardinality(InsertedFor(t)) = 2
       /\ stateLog[Len(stateLog)].key = PriceKey(t)
       /\ stateLog[Len(stateLog)].last_ts = SetMax({r.ts : r \in InsertedFor(t)})

\* C17: a pass of the per-ticker loop for a ticker that has no row in the frame,
\* or, with force off, only rows at or below its watermark, inserts nothing,
\* appends no state row, adds nothing to the count and goes on to the next ticker;
\* a chunk whose frame is empty writes nothing; the count returned is the number
\* of rows inserted.
C17_NothingNewNoWrite ==
  /\ [][ pc = "px_ticker" /\ j <= Len(chunk) /\ ~storeFailed'
           /\ (LET L == Current("fact_stock_prices", PriceKey(chunk[j]))[1]
                   sub0 == SubOf(norm, chunk, chunk[j])
               IN sub0 = {} \/ (~force /\ IsSet(L) /\ \A ts \in sub0 : ts <= L))
           => /\ UNCHANGED <<stateLog, priceTable, inserted, total, pc>>
              /\ j' = j + 1
       ]_vars
  /\ [][ pc = "px_chunk" /\ lastOutcome' = "EMPTY"
           => UNCHANGED <<stateLog, priceTable, inserted, total, pc>> ]_vars
  /\ [](job = "fact_stock_prices" /\ pc = "done" => ret = Cardinality(PriceInserted))

\* a run that returned 1: the first ticker's rows were all at or below its
\* watermark and left no trace, the second ticker's row was written
C17_Witness ==
  /\ job = "fact_stock_prices" /\ ~force /\ pc = "done" /\ args = <<"A", "B">>
  /\ provider = "full" /\ ret = 1
  /\ IsSet(PreRun("fact_stock_prices", PriceKey("A"))[1])
  /\ Current("fact_stock_prices", PriceKey("A")) = PreRun("fact_stock_prices", PriceKey("A"))
  /\ InsertedFor("A") = {} /\ InsertedFor("B") # {}

\* C18 as claimed: a skipped run of ingest_dim_industry finds, for every sector it
\* was asked for, rows of that sector with an as-of date at or after the requested
\* one in the table.
C18_SkipOnlyIfAllSectorsWritten ==
  job = "dim_industry" /\ lastOutcome = "SKIPPED" =>
    \A s \in Range(args) : \E r \in dimTable : r.sector_key = s /\ r.asof_date >= asof

\* C19: after a non-force run that returned and whose downloads carried every bar
\* the provider holds from the start asked for, every bar with a usable close above
\* the ticker's pre-run watermark (for a ticker without watermark: at or after
\* now - default_lookback_days) has been inserted.
C19_NoGap ==
  job = "fact_stock_prices" /\ pc = "done" /\ ~force /\ provider \in {"full", "complete"} =>
    \A t \in Range(args) : \A ts \in 0..now :
      LET L == PreRun("fact_stock_prices", PriceKey(t))[1]
          usable == provider = "full" \/ ts < now
          due == IF IsSet(L) THEN ts > L ELSE ts >= ingestedAt - lookback
      IN usable /\ due => [ts |-> ts, ticker |-> t, interval |-> Interval] \in PriceInserted

\* a run that picked up two bars above the watermark of a ticker whose previous
\* run was more than a day of bars ago
C19_Witness ==
  /\ job = "fact_stock_prices" /\ pc = "done" /\ ~force /\ provider = "full"
  /\ \E t \in Range(args) :
       LET L == PreRun("fact_stock_prices", PriceKey(t))[1]
       IN /\ IsSet(L) /\ L + 2 = now
          /\ InsertedFor(t) = PriceRows(t, {L + 1, L + 2})

\* C20: a sector / industry whose table lacks a required column adds no row and
\* the loop goes on; what the other sectors / industries added stays in rows, and
\* the final insert writes every collected row.
C20_MissingColumnSkipped ==
  /\ [][ (pc \in {"dim_loop", "mem_loop"}) /\ lastOutcome' = "BADCOLS"
           => /\ rows' = rows /\ pc' = pc
              /\ UNCHANGED storeVars
              /\ (pc = "dim_loop" => i' = i + 1)
              /\ (pc = "mem_loop" => Cardinality(todo') = Cardinality(todo) - 1)
       ]_vars
  /\ [][ (pc \in {"dim_loop", "mem_loop"}) /\ lastOutcome' = "OK"
           => Len(rows') > Len(rows) /\ SubSeq(rows', 1, Len(rows)) = rows ]_vars
  /\ [](job \in {"dim_industry", "industry_membership"} /\ pc = "done"
          /\ lastOutcome # "SKIPPED"
          => /\ ret = Len(rows)
             /\ Range(rows) \subseteq (IF job = "dim_industry" THEN dimTable ELSE memTable)
             /\ \A e \in fetchedOk : \E x \in inserted : EntityOfRow(x) = e)

\* ingest_dim_industry over both sectors: the first sector's rows were collected,
\* the second sector's table lacked a column and added none
C20_Witness ==
  /\ job = "dim_industry" /\ pc = "dim_loop" /\ args = <<"s1", "s2">> /\ i = 3
  /\ lastOutcome = "BADCOLS"
  /\ fetched = {"s1", "s2"} /\ fetchedOk = {"s1"}
  /\ Len(rows) = 1 /\ rows[1].sector_key = "s1"

\* C21 as claimed: in every price record written, a column among open, high, low
\* and adjusted close whose value is NaN in the downloaded bar, or that the
\* downloaded frame does not have, carries the record's close.
C21_MissingFallsBackToClose ==
  job = "price_record" /\ ret # <<>> =>
    \A c \in Columns \ {ColClose} :
      args[c] \in {NaN, Absent} => ret[c] = ret[ColClose]

\* an identifier that is neither empty nor "nan" once trimmed
GoodId(s) == Strip(s) \notin {"", "nan"}

\* C22: no row of the four tables has an industry key or ticker that is empty or
\* "nan" after trimming, no state row is keyed by such a ticker, and the provider
\* is never asked for one.
C22_NoBlankIdentifiers ==
  /\ \A r \in dimTable : GoodId(r.industry_key)
  /\ \A r \in memTable : GoodId(r.industry_key) /\ GoodId(r.ticker)
  /\ \A r \in capTable : GoodId(r.ticker)
  /\ \A r \in priceTable : GoodId(r.ticker)
  /\ \A n \in 1..Len(stateLog) :
       /\ stateLog[n].target = "fact_market_cap" => GoodId(stateLog[n].key)
       /\ stateLog[n].target = "fact_stock_prices"
            => stateLog[n].key \notin {PriceKey(""), PriceKey("nan"), PriceKey(" nan "),
                                       PriceKey("  ")}
  /\ \A n \in 1..Len(rows) :
       /\ job = "dim_industry" => GoodId(rows[n].industry_key)
       /\ job \in {"industry_membership", "fact_market_cap"} => GoodId(rows[n].ticker)
  /\ job \in {"fact_market_cap", "fact_stock_prices"} => \A e \in fetched : GoodId(e)

\* ingest_market_cap was given "nan", a blank and a padded ticker: it has fetched
\* and written the ticker alone, under its trimmed name
C22_Witness ==
  /\ job = "fact_market_cap" /\ pc = "done" /\ args = <<" nan ", "  ", " A">>
  /\ fetched = {"A"}
  /\ capTable = {[asof_date |-> asof, ticker |-> "A"]}
  /\ Len(stateLog) = 1 /\ stateLog[1].key = "A"

\* C23: wait_for_clickhouse ends; a pass whose connect and SELECT 1 succeed ends
\* it with a return, a pass that fails is followed by a one-second pause; there
\* are at most 30 passes; it returns only after a successful pass (the first one),
\* and it raises exactly when 30 passes have failed.
C23_StartupTerminates ==
  /\ [][ startup.pc = "probe"
           => LET o == startup'.result IN
              /\ o \in {"ok", "ok_close_error"} =>
                   startup'.pc = "ready" /\ startup'.failed = startup.failed
              /\ o \in {"connect_error", "command_error"} =>
                   startup'.pc = "sleep" /\ startup'.failed = startup.failed + 1
       ]_vars
  /\ [][ startup.pc = "sleep"
           => /\ startup'.slept = startup.slept + 1
              /\ startup'.pc = (IF startup.failed = 30 THEN "fatal" ELSE "probe")
       ]_vars
  /\ [](startup.attempt <= 30)
  /\ [](startup.pc = "ready" =>
          /\ startup.result \in {"ok", "ok_close_error"}
          /\ startup.failed = startup.attempt - 1
          /\ startup.slept = startup.failed)
  /\ [](startup.pc = "fatal" =>
          startup.failed = 30 /\ startup.attempt = 30 /\ startup.slept = 30)
  /\ [](startup.failed = 30 => startup.pc \in {"sleep", "fatal"})
  /\ <>(startup.pc \in {"ready", "fatal"})

\* thirty passes failed, thirty pauses were taken, the hook raised
C23_Witness ==
  /\ startup.pc = "fatal" /\ startup.failed = 30 /\ startup.slept = 30
  /\ startup.last_err = "command_error"

====
